---- MODULE Spec2Model ----
(***************************************************************************)
(* Model of code_analyzer_agent.py: the process-wide file cache, the two   *)
(* tools (fetch_github_file, analyze_code_quality), the dispatcher         *)
(* process_tool_call and the bounded tool-calling loop run_agent.          *)
(*                                                                         *)
(* Texts are TLA+ strings; Len, SubSeq and \o act on them as on Python     *)
(* str.  The chat model and raw.githubusercontent.com are the environment: *)
(* their answers are drawn from small sets.                                *)
(***************************************************************************)
EXTENDS Integers, Sequences, FiniteSets, TLC

VARIABLES
    file_cache,   \* the module-level dict: file_path -> text
    pc,           \* position of the caller: idle / in run_agent / returned / raised
    messages,     \* run_agent's local transcript
    iteration,    \* run_agent's local loop counter
    response,     \* assistant_message of the latest model round-trip
    tool_call,    \* the honored descriptor of the current round-trip
    result,       \* value returned by the latest process_tool_call
    returned,     \* value returned by run_agent
    exception,    \* the exception that left run_agent, "" when none
    round_trips,  \* client.chat.completions.create calls made in this run
    dispatched,   \* process_tool_call calls that returned in this run
    calls,        \* tool functions entered in the current round-trip
    requests,     \* requests.get calls made by the latest fetch, in order
    side_calls,   \* honored requests, in this run, for anything but an analysis
    runs          \* run_agent invocations started in this process

vars == <<file_cache, pc, messages, iteration, response, tool_call, result,
          returned, exception, round_trips, dispatched, calls, requests,
          side_calls, runs>>

-----------------------------------------------------------------------------
(* Bounds of the model and program constants *)

max_iterations == 10

MaxSideCalls == 1
MaxRuns == 2
MaxLines == 2
MaxRaceTools == 2

-----------------------------------------------------------------------------
(* Python values *)

None == [py_none |-> TRUE]

EmptyCache == [p \in {} |-> ""]

Store(cache, key, value) ==
    [k \in (DOMAIN cache) \cup {key} |-> IF k = key THEN value ELSE cache[k]]

-----------------------------------------------------------------------------
(* str methods used by analyze_code_quality *)

Whitespace == {" ", "\t", "\r", "\n", "\f"}

CharAt(s, i) == SubSeq(s, i, i)

\* str.find(ch, i): the first index >= i holding ch, 0 when there is none.
RECURSIVE find(_, _, _)
find(s, ch, i) ==
    IF i > Len(s) THEN 0 ELSE IF CharAt(s, i) = ch THEN i ELSE find(s, ch, i + 1)

\* str.split(sep) for a one-character sep: the pieces between its occurrences.
RECURSIVE split(_, _)
split(s, sep) ==
    LET i == find(s, sep, 1)
    IN  IF i = 0 THEN <<s>>
        ELSE <<SubSeq(s, 1, i - 1)>> \o split(SubSeq(s, i + 1, Len(s)), sep)

RECURSIVE lstrip(_)
lstrip(s) ==
    IF Len(s) > 0 /\ CharAt(s, 1) \in Whitespace THEN lstrip(SubSeq(s, 2, Len(s))) ELSE s

RECURSIVE rstrip(_)
rstrip(s) ==
    IF Len(s) > 0 /\ CharAt(s, Len(s)) \in Whitespace
    THEN rstrip(SubSeq(s, 1, Len(s) - 1)) ELSE s

\* str.strip(): without the leading and the trailing whitespace.
strip(s) == rstrip(lstrip(s))

startswith(s, prefixes) ==
    \E p \in prefixes : Len(s) >= Len(p) /\ SubSeq(s, 1, Len(p)) = p

\* str.count(sub): occurrences found left to right, each search resuming
\* after the previous occurrence.
RECURSIVE count(_, _)
count(s, sub) ==
    IF Len(s) < Len(sub) THEN 0
    ELSE IF SubSeq(s, 1, Len(sub)) = sub
         THEN 1 + count(SubSeq(s, Len(sub) + 1, Len(s)), sub)
         ELSE count(SubSeq(s, 2, Len(s)), sub)

CommentMarkers == {"//", "#", "/*", "*"}

\* Faulty variant: the line is tested as it stands, without strip().
IsCodeLineUnstripped(l) == l # "" /\ ~startswith(l, CommentMarkers)

IsCodeLine(l) == strip(l) # "" /\ ~startswith(strip(l), CommentMarkers)

RECURSIVE CountCodeLines(_)
CountCodeLines(lines) ==
    IF lines = <<>> THEN 0
    ELSE (IF IsCodeLine(Head(lines)) THEN 1 ELSE 0) + CountCodeLines(Tail(lines))

-----------------------------------------------------------------------------
(* json.loads and json.dumps, as far as run_agent uses them: arguments are *)
(* JSON objects whose members are strings without escapes; results are the *)
(* dicts the tools build, or None.                                         *)

JSONDecodeError == [py_exception |-> "JSONDecodeError"]

RECURSIVE skip_ws(_, _)
skip_ws(s, i) ==
    IF i <= Len(s) /\ CharAt(s, i) \in Whitespace THEN skip_ws(s, i + 1) ELSE i

\* The string literal that opens at index i: its value and the index after it.
scan_string(s, i) ==
    LET j == find(s, "\"", i + 1)
    IN  IF i > Len(s) \/ CharAt(s, i) # "\"" \/ j = 0
        THEN [ok |-> FALSE, value |-> "", next |-> i]
        ELSE [ok |-> TRUE, value |-> SubSeq(s, i + 1, j - 1), next |-> j + 1]

\* The members "key": "value" from index i on, added to acc; a later member
\* replaces an earlier one of the same key.
RECURSIVE scan_members(_, _, _)
scan_members(s, i, acc) ==
    LET key   == scan_string(s, i)
        colon == skip_ws(s, key.next)
        val   == scan_string(s, skip_ws(s, colon + 1))
        sep   == skip_ws(s, val.next)
        obj   == Store(acc, key.value, val.value)
    IN  IF ~key.ok \/ colon > Len(s) \/ CharAt(s, colon) # ":" THEN JSONDecodeError
        ELSE IF ~val.ok \/ sep > Len(s) THEN JSONDecodeError
        ELSE IF CharAt(s, sep) = "," THEN scan_members(s, skip_ws(s, sep + 1), obj)
        ELSE IF CharAt(s, sep) = "}" /\ skip_ws(s, sep + 1) > Len(s) THEN obj
        ELSE JSONDecodeError

json_loads(s) ==
    LET open  == skip_ws(s, 1)
        first == skip_ws(s, open + 1)
    IN  IF open > Len(s) \/ CharAt(s, open) # "{" \/ first > Len(s) THEN JSONDecodeError
        ELSE IF CharAt(s, first) = "}"
             THEN (IF skip_ws(s, first + 1) > Len(s) THEN EmptyCache ELSE JSONDecodeError)
        ELSE scan_members(s, first, EmptyCache)

Quoted(s) == "\"" \o s \o "\""

json_dumps(obj) ==
    IF obj = None THEN "null"
    ELSE IF "success" \in DOMAIN obj /\ obj.success
    THEN "{\"success\": true, \"file_path\": " \o Quoted(obj.file_path)
         \o ", \"size\": " \o ToString(obj.size) \o "}"
    ELSE IF "success" \in DOMAIN obj
    THEN "{\"success\": false, \"error\": " \o Quoted(obj.error) \o "}"
    ELSE IF "total_lines" \in DOMAIN obj
    THEN "{\"file_path\": " \o Quoted(obj.file_path)
         \o ", \"total_lines\": " \o ToString(obj.total_lines)
         \o ", \"code_lines\": " \o ToString(obj.code_lines)
         \o ", \"estimated_functions\": " \o ToString(obj.estimated_functions)
         \o ", \"note\": " \o Quoted(obj.note) \o "}"
    ELSE "{\"error\": " \o Quoted(obj.error) \o "}"

-----------------------------------------------------------------------------
(* The tools.  Each takes the cache it finds and yields what it returns,   *)
(* the cache it leaves and the HTTP requests it made.                      *)

Branches == {"main", "master"}

Url(owner, repo, branch, file_path) ==
    "https://raw.githubusercontent.com/" \o owner \o "/" \o repo \o "/"
        \o branch \o "/" \o file_path

\* requests.get(url): the request together with the response it got.
requests_get(answers, owner, repo, branch, file_path) ==
    [url         |-> Url(owner, repo, branch, file_path),
     status_code |-> answers[branch].status_code,
     text        |-> answers[branch].text]

FetchSuccess(file_path, text) ==
    [success |-> TRUE, file_path |-> file_path, size |-> Len(text)]

FetchFailure == [success |-> FALSE, error |-> "File not found"]

\* Faulty variants of fetch_github_file, each one slip away from the code.
\* The master branch's body is cached from the wrong response object.
FetchStoresFirstBody(cache, owner, repo, file_path, answers) ==
    LET first  == requests_get(answers, owner, repo, "main", file_path)
        second == requests_get(answers, owner, repo, "master", file_path)
    IN  IF first.status_code = 200
        THEN [result     |-> FetchSuccess(file_path, first.text),
              file_cache |-> Store(cache, file_path, first.text),
              requests   |-> <<first>>]
        ELSE IF second.status_code = 200
        THEN [result     |-> FetchSuccess(file_path, second.text),
              file_cache |-> Store(cache, file_path, first.text),
              requests   |-> <<first, second>>]
        ELSE [result     |-> FetchFailure,
              file_cache |-> cache,
              requests   |-> <<first, second>>]

\* A failed fetch drops the entry of the path.
FetchEvictsOnFailure(cache, owner, repo, file_path, answers) ==
    LET first  == requests_get(answers, owner, repo, "main", file_path)
        second == requests_get(answers, owner, repo, "master", file_path)
    IN  IF first.status_code = 200
        THEN [result     |-> FetchSuccess(file_path, first.text),
              file_cache |-> Store(cache, file_path, first.text),
              requests   |-> <<first>>]
        ELSE IF second.status_code = 200
        THEN [result     |-> FetchSuccess(file_path, second.text),
              file_cache |-> Store(cache, file_path, second.text),
              requests   |-> <<first, second>>]
        ELSE [result     |-> FetchFailure,
              file_cache |-> [k \in (DOMAIN cache) \ {file_path} |-> cache[k]],
              requests   |-> <<first, second>>]

\* The body is cached before the status of the second response is looked at.
FetchCachesFailure(cache, owner, repo, file_path, answers) ==
    LET first  == requests_get(answers, owner, repo, "main", file_path)
        second == requests_get(answers, owner, repo, "master", file_path)
    IN  IF first.status_code = 200
        THEN [result     |-> FetchSuccess(file_path, first.text),
              file_cache |-> Store(cache, file_path, first.text),
              requests   |-> <<first>>]
        ELSE IF second.status_code = 200
        THEN [result     |-> FetchSuccess(file_path, second.text),
              file_cache |-> Store(cache, file_path, second.text),
              requests   |-> <<first, second>>]
        ELSE [result     |-> FetchFailure,
              file_cache |-> Store(cache, file_path, second.text),
              requests   |-> <<first, second>>]

\* Both branches are requested up front.
FetchAlwaysBoth(cache, owner, repo, file_path, answers) ==
    LET first  == requests_get(answers, owner, repo, "main", file_path)
        second == requests_get(answers, owner, repo, "master", file_path)
    IN  IF first.status_code = 200
        THEN [result     |-> FetchSuccess(file_path, first.text),
              file_cache |-> Store(cache, file_path, first.text),
              requests   |-> <<first, second>>]
        ELSE IF second.status_code = 200
        THEN [result     |-> FetchSuccess(file_path, second.text),
              file_cache |-> Store(cache, file_path, second.text),
              requests   |-> <<first, second>>]
        ELSE [result     |-> FetchFailure,
              file_cache |-> cache,
              requests   |-> <<first, second>>]

\* The entry is keyed by owner, repository and path.
FetchKeyedByRepo(cache, owner, repo, file_path, answers) ==
    LET first  == requests_get(answers, owner, repo, "main", file_path)
        second == requests_get(answers, owner, repo, "master", file_path)
        key    == owner \o "/" \o repo \o "/" \o file_path
    IN  IF first.status_code = 200
        THEN [result     |-> FetchSuccess(file_path, first.text),
              file_cache |-> Store(cache, key, first.text),
              requests   |-> <<first>>]
        ELSE IF second.status_code = 200
        THEN [result     |-> FetchSuccess(file_path, second.text),
              file_cache |-> Store(cache, key, second.text),
              requests   |-> <<first, second>>]
        ELSE [result     |-> FetchFailure,
              file_cache |-> cache,
              requests   |-> <<first, second>>]

fetch_github_file(cache, owner, repo, file_path, answers) ==
    LET first  == requests_get(answers, owner, repo, "main", file_path)
        second == requests_get(answers, owner, repo, "master", file_path)
    IN  IF first.status_code = 200
        THEN [result     |-> FetchSuccess(file_path, first.text),
              file_cache |-> Store(cache, file_path, first.text),
              requests   |-> <<first>>]
        ELSE IF second.status_code = 200
        THEN [result     |-> FetchSuccess(file_path, second.text),
              file_cache |-> Store(cache, file_path, second.text),
              requests   |-> <<first, second>>]
        ELSE [result     |-> FetchFailure,
              file_cache |-> cache,
              requests   |-> <<first, second>>]

NotFetched == [error |-> "File not fetched yet. Call fetch_github_file first."]

\* Faulty variant: the tokens are counted without their trailing space.
MetricsBareTokens(file_path, code) ==
    LET lines == split(code, "\n")
    IN  [file_path           |-> file_path,
         total_lines         |-> Len(lines),
         code_lines          |-> CountCodeLines(lines),
         estimated_functions |-> count(code, "function") + count(code, "def")
                                   + count(code, "const") + count(code, "let"),
         note                |-> "Metrics calculated from cached file."]

Metrics(file_path, code) ==
    LET lines == split(code, "\n")
    IN  [file_path           |-> file_path,
         total_lines         |-> Len(lines),
         code_lines          |-> CountCodeLines(lines),
         estimated_functions |-> count(code, "function ") + count(code, "def ")
                                   + count(code, "const ") + count(code, "let "),
         note                |-> "Metrics calculated from cached file."]

\* Faulty variant: file_cache.get(file_path, "") instead of the membership test.
AnalyzeUnguarded(cache, file_path) ==
    Metrics(file_path, IF file_path \in DOMAIN cache THEN cache[file_path] ELSE "")

analyze_code_quality(cache, file_path) ==
    IF file_path \notin DOMAIN cache THEN NotFetched
    ELSE Metrics(file_path, cache[file_path])

\* What a call of process_tool_call leaves behind: the exception it raised
\* ("" when it returned), its return value, the cache, the requests made and
\* the tool functions entered.
Outcome(exc, res, cache, reqs, entered) ==
    [exception |-> exc, result |-> res, file_cache |-> cache,
     requests |-> reqs, calls |-> entered]

\* Faulty variant: a name that is neither tool is rejected with an exception.
ProcessRejectsUnknown(cache, tool_name, tool_input, answers) ==
    IF tool_name = "fetch_github_file"
    THEN IF DOMAIN tool_input # {"owner", "repo", "file_path"}
         THEN Outcome("TypeError", None, cache, <<>>, <<>>)
         ELSE LET f == fetch_github_file(cache, tool_input.owner, tool_input.repo,
                                         tool_input.file_path, answers)
              IN  Outcome("", f.result, f.file_cache, f.requests,
                          <<[name |-> tool_name, args |-> tool_input]>>)
    ELSE IF tool_name = "analyze_code_quality"
    THEN IF DOMAIN tool_input # {"file_path"}
         THEN Outcome("TypeError", None, cache, <<>>, <<>>)
         ELSE Outcome("", analyze_code_quality(cache, tool_input.file_path), cache, <<>>,
                      <<[name |-> tool_name, args |-> tool_input]>>)
    ELSE Outcome("ValueError", None, cache, <<>>, <<>>)

process_tool_call(cache, tool_name, tool_input, answers) ==
    IF tool_name = "fetch_github_file"
    THEN IF DOMAIN tool_input # {"owner", "repo", "file_path"}
         THEN Outcome("TypeError", None, cache, <<>>, <<>>)
         ELSE LET f == fetch_github_file(cache, tool_input.owner, tool_input.repo,
                                         tool_input.file_path, answers)
              IN  Outcome("", f.result, f.file_cache, f.requests,
                          <<[name |-> tool_name, args |-> tool_input]>>)
    ELSE IF tool_name = "analyze_code_quality"
    THEN IF DOMAIN tool_input # {"file_path"}
         THEN Outcome("TypeError", None, cache, <<>>, <<>>)
         ELSE Outcome("", analyze_code_quality(cache, tool_input.file_path), cache, <<>>,
                      <<[name |-> tool_name, args |-> tool_input]>>)
    ELSE Outcome("", None, cache, <<>>, <<>>)

-----------------------------------------------------------------------------
(* The environment: what the chat model may answer and what the remote     *)
(* may answer to a GET.                                                    *)

UserMessages ==
    {"Analyze the code quality of 'src/core.js' from the 'jquery/jquery' repository.",
     "Count the functions of 'src/core.js' in 'jquery/jquery'."}

SystemPrompt ==
    "You are a code quality analysis agent. Use the tools to fetch and analyze code from GitHub repositories. Call one tool at a time."

MainText == "// v2\n\nlet x = 1;"
MasterText == "def f():\n  # v1\n"

HttpReplies ==
    {[status_code |-> 200, text |-> MainText],
     [status_code |-> 200, text |-> MasterText],
     [status_code |-> 404, text |-> "404: Not Found"]}

\* No request is made, so no answer is met.
NoAnswers == [b \in Branches |-> [status_code |-> 0, text |-> ""]]

\* Every way the two branches can answer one fetch.
AllAnswers == [Branches -> HttpReplies]

\* The answers run_agent's fetches meet: the file is on main, only on master,
\* or on neither branch.
AgentAnswers ==
    {a \in AllAnswers :
        \/ a["main"].text = MainText
        \/ a["main"].status_code # 200 /\ a["master"].text # MainText}

FetchArguments ==
    "{\"owner\": \"jquery\", \"repo\": \"jquery\", \"file_path\": \"src/core.js\"}"
AnalyzeArguments == "{\"file_path\":\"src/core.js\"}"
MalformedArguments == "{\"file_path\": \"src/core.js"

ToolCall(id, name, arguments) ==
    [id |-> id, function |-> [name |-> name, arguments |-> arguments]]

FetchCall(id) == ToolCall(id, "fetch_github_file", FetchArguments)
AnalyzeCall(id) == ToolCall(id, "analyze_code_quality", AnalyzeArguments)
UnknownCall(id) == ToolCall(id, "run_linter", AnalyzeArguments)
MalformedCall(id) == ToolCall(id, "analyze_code_quality", MalformedArguments)
MisfitCall(id) == ToolCall(id, "analyze_code_quality", FetchArguments)

Reply(content, tool_calls) == [content |-> content, tool_calls |-> tool_calls]

FinalAnswer == "Quality score: 6/10. The file predates ES modules."

Responses ==
    {Reply(FinalAnswer, <<>>),
     Reply("", <<FetchCall("call_a")>>),
     Reply("", <<AnalyzeCall("call_a")>>),
     Reply("", <<FetchCall("call_a"), AnalyzeCall("call_b")>>),
     Reply("", <<AnalyzeCall("call_a"), FetchCall("call_b"), UnknownCall("call_c")>>),
     Reply("", <<UnknownCall("call_a")>>),
     Reply("", <<MalformedCall("call_a")>>),
     Reply("", <<MisfitCall("call_a"), AnalyzeCall("call_b")>>)}

ToolNames == {"fetch_github_file", "analyze_code_quality"}

-----------------------------------------------------------------------------
(* run_agent *)

NoResponse == Reply("", <<>>)
NoToolCall == ToolCall("", "", "")
Sentinel == "Max iterations reached"

\* Faulty variant: the system instruction leads the transcript.
SeedSystemFirst(user_message) ==
    <<[role |-> "system", content |-> SystemPrompt],
      [role |-> "user", content |-> user_message]>>

SeedMessages(user_message) ==
    <<[role |-> "user", content |-> user_message],
      [role |-> "system", content |-> SystemPrompt]>>

\* Faulty variants of the loop condition: one round-trip too many, one too few.
LoopGuardInclusive(i) == i <= max_iterations
LoopGuardShort(i) == i < max_iterations - 1

\* while iteration < max_iterations
LoopGuard(i) == i < max_iterations

\* Faulty variant: tool_calls[-1].
HonoredLast(tool_calls) == tool_calls[Len(tool_calls)]

\* tool_call = assistant_message.tool_calls[0]
Honored(tool_calls) == tool_calls[1]

AssistantMessage(tc) ==
    [role |-> "assistant", content |-> "",
     tool_calls |-> <<[id |-> tc.id, type |-> "function",
                       function |-> [name |-> tc.function.name,
                                     arguments |-> tc.function.arguments]]>>]

ToolMessage(tc, res) ==
    [role |-> "tool", tool_call_id |-> tc.id, content |-> json_dumps(res)]

\* Faulty variant: the result is recorded before the invocation it answers.
AppendedSwapped(tc, res) == <<ToolMessage(tc, res), AssistantMessage(tc)>>

Appended(tc, res) == <<AssistantMessage(tc), ToolMessage(tc, res)>>

Init ==
    /\ file_cache = EmptyCache
    /\ pc = "idle"
    /\ messages = <<>>
    /\ iteration = 0
    /\ response = NoResponse
    /\ tool_call = NoToolCall
    /\ result = None
    /\ returned = <<>>
    /\ exception = ""
    /\ round_trips = 0
    /\ dispatched = 0
    /\ calls = <<>>
    /\ requests = <<>>
    /\ side_calls = 0
    /\ runs = 0

\* Faulty variant: every run starts with an empty cache.
StartRunClearsCache ==
    /\ pc \in {"idle", "done", "iteration_exhausted", "raised"}
    /\ runs < MaxRuns
    /\ \E user_message \in UserMessages : messages' = SeedMessages(user_message)
    /\ iteration' = 0
    /\ response' = NoResponse
    /\ tool_call' = NoToolCall
    /\ result' = None
    /\ returned' = <<>>
    /\ exception' = ""
    /\ round_trips' = 0
    /\ dispatched' = 0
    /\ calls' = <<>>
    /\ requests' = <<>>
    /\ side_calls' = 0
    /\ runs' = runs + 1
    /\ pc' = "awaiting_model"
    /\ file_cache' = EmptyCache

\* run_agent(user_message) is called: lines 88-95.
StartRun ==
    /\ pc \in {"idle", "done", "iteration_exhausted", "raised"}
    /\ runs < MaxRuns
    /\ \E user_message \in UserMessages : messages' = SeedMessages(user_message)
    /\ iteration' = 0
    /\ response' = NoResponse
    /\ tool_call' = NoToolCall
    /\ result' = None
    /\ returned' = <<>>
    /\ exception' = ""
    /\ round_trips' = 0
    /\ dispatched' = 0
    /\ calls' = <<>>
    /\ requests' = <<>>
    /\ side_calls' = 0
    /\ runs' = runs + 1
    /\ pc' = "awaiting_model"
    /\ UNCHANGED file_cache

\* The chat model asks for an analysis as often as it likes; what else it asks
\* for (a fetch, an unrecognized name) is bounded in each run.
IsSideCall(r) ==
    IF r.tool_calls = <<>> THEN FALSE
    ELSE Honored(r.tool_calls).function.name # "analyze_code_quality"

Affordable(r) == IsSideCall(r) => side_calls < MaxSideCalls

Spend(r) == side_calls' = side_calls + (IF IsSideCall(r) THEN 1 ELSE 0)

\* One round-trip: lines 97-113.
ModelCall ==
    /\ pc = "awaiting_model"
    /\ LoopGuard(iteration)
    /\ iteration' = iteration + 1
    /\ round_trips' = round_trips + 1
    /\ \E r \in Responses : Affordable(r) /\ response' = r /\ Spend(r)
    /\ calls' = <<>>
    /\ pc' = "responded"
    /\ UNCHANGED <<file_cache, messages, tool_call, result, returned, exception,
                   dispatched, requests, runs>>

\* client.chat.completions.create raises: nothing in run_agent catches it.
ModelCallFails ==
    /\ pc = "awaiting_model"
    /\ LoopGuard(iteration)
    /\ iteration' = iteration + 1
    /\ round_trips' = round_trips + 1
    /\ calls' = <<>>
    /\ exception' = "APIError"
    /\ pc' = "raised"
    /\ UNCHANGED <<file_cache, messages, response, tool_call, result, returned,
                   dispatched, requests, side_calls, runs>>

\* Faulty variant: the parse error is caught, reported to the chat model as
\* the tool's result, and the loop goes on.
ParseFailsRecorded ==
    /\ pc = "responded"
    /\ response.tool_calls # <<>>
    /\ json_loads(Honored(response.tool_calls).function.arguments) = JSONDecodeError
    /\ tool_call' = Honored(response.tool_calls)
    /\ messages' = messages \o
          Appended(Honored(response.tool_calls), [error |-> "Invalid arguments"])
    /\ pc' = "awaiting_model"
    /\ UNCHANGED <<file_cache, iteration, response, result, returned, exception,
                   round_trips, dispatched, calls, requests, side_calls, runs>>

\* Lines 116-126 when json.loads raises.
ParseFails ==
    /\ pc = "responded"
    /\ response.tool_calls # <<>>
    /\ json_loads(Honored(response.tool_calls).function.arguments) = JSONDecodeError
    /\ tool_call' = Honored(response.tool_calls)
    /\ exception' = "JSONDecodeError"
    /\ pc' = "raised"
    /\ UNCHANGED <<file_cache, messages, iteration, response, result, returned,
                   round_trips, dispatched, calls, requests, side_calls, runs>>

\* Lines 116-126: the honored invocation is parsed and dispatched.
Dispatch ==
    /\ pc = "responded"
    /\ response.tool_calls # <<>>
    /\ LET tc         == Honored(response.tool_calls)
           tool_name  == tc.function.name
           tool_args  == json_loads(tc.function.arguments)
       IN  /\ tool_args # JSONDecodeError
           /\ tool_call' = tc
           /\ \E answers \in (IF tool_name = "fetch_github_file" THEN AgentAnswers
                               ELSE {NoAnswers}) :
                LET o == process_tool_call(file_cache, tool_name, tool_args, answers)
                IN  /\ exception' = o.exception
                    /\ file_cache' = o.file_cache
                    /\ calls' = o.calls
                    /\ requests' = IF o.calls # <<>> /\ tool_name = "fetch_github_file"
                                   THEN o.requests ELSE requests
                    /\ IF o.exception = ""
                       THEN /\ result' = o.result
                            /\ dispatched' = dispatched + 1
                            /\ pc' = "tool_done"
                       ELSE /\ pc' = "raised"
                            /\ UNCHANGED <<result, dispatched>>
    /\ UNCHANGED <<messages, iteration, response, returned, round_trips,
                   side_calls, runs>>

\* Line 126 when requests.get raises inside fetch_github_file (the host is
\* unreachable): at the first request, or at the second after main answered
\* non-200.  Nothing is cached; nothing in run_agent catches it.
RequestFails ==
    /\ pc = "responded"
    /\ response.tool_calls # <<>>
    /\ LET tc        == Honored(response.tool_calls)
           tool_args == json_loads(tc.function.arguments)
       IN  /\ tc.function.name = "fetch_github_file"
           /\ tool_args # JSONDecodeError
           /\ DOMAIN tool_args = {"owner", "repo", "file_path"}
           /\ tool_call' = tc
           /\ calls' = <<[name |-> tc.function.name, args |-> tool_args]>>
           /\ \E answers \in AgentAnswers :
                requests' \in
                   {<<>>} \cup
                   {<<requests_get(answers, tool_args.owner, tool_args.repo, "main",
                                   tool_args.file_path)>> :
                       x \in {a \in {answers} : a["main"].status_code # 200}}
    /\ exception' = "ConnectionError"
    /\ pc' = "raised"
    /\ UNCHANGED <<file_cache, messages, iteration, response, result, returned,
                   round_trips, dispatched, side_calls, runs>>

\* Lines 130-151.
AppendMessages ==
    /\ pc = "tool_done"
    /\ messages' = messages \o Appended(tool_call, result)
    /\ pc' = "awaiting_model"
    /\ UNCHANGED <<file_cache, iteration, response, tool_call, result, returned,
                   exception, round_trips, dispatched, calls, requests, side_calls, runs>>

\* Faulty variant: the final assistant message is recorded before returning.
FinishAppending ==
    /\ pc = "responded"
    /\ response.tool_calls = <<>>
    /\ messages' = Append(messages, [role |-> "assistant", content |-> response.content])
    /\ returned' = <<response.content>>
    /\ pc' = "done"
    /\ UNCHANGED <<file_cache, iteration, response, tool_call, result,
                   exception, round_trips, dispatched, calls, requests, side_calls,
                   runs>>

\* Lines 153-158.
Finish ==
    /\ pc = "responded"
    /\ response.tool_calls = <<>>
    /\ returned' = <<response.content>>
    /\ pc' = "done"
    /\ UNCHANGED <<file_cache, messages, iteration, response, tool_call, result,
                   exception, round_trips, dispatched, calls, requests, side_calls, runs>>

\* Line 160.
Exhausted ==
    /\ pc = "awaiting_model"
    /\ ~LoopGuard(iteration)
    /\ returned' = <<Sentinel>>
    /\ pc' = "iteration_exhausted"
    /\ UNCHANGED <<file_cache, messages, iteration, response, tool_call, result,
                   exception, round_trips, dispatched, calls, requests, side_calls, runs>>

RunStep ==
    \/ ModelCall
    \/ ModelCallFails
    \/ ParseFails
    \/ Dispatch
    \/ RequestFails
    \/ AppendMessages
    \/ Finish
    \/ Exhausted

Next == StartRun \/ RunStep

Spec == Init /\ [][Next]_vars

-----------------------------------------------------------------------------
(* The tools called directly, one call after another in one process, with  *)
(* every owner, repository, path and pair of branch answers.               *)

Owners == {"jquery", "lodash"}
Repos == {"jquery", "lodash"}
Paths == {"src/core.js", "README.md"}

FetchInputs == [owner : Owners, repo : Repos, file_path : Paths]
AnalyzeInputs == [file_path : Paths]

Entered(name, args) == <<[name |-> name, args |-> args]>>

ToolInit ==
    /\ file_cache = EmptyCache
    /\ pc = "direct"
    /\ messages = <<>>
    /\ iteration = 0
    /\ response = NoResponse
    /\ tool_call = NoToolCall
    /\ result = None
    /\ returned = <<>>
    /\ exception = ""
    /\ round_trips = 0
    /\ dispatched = 0
    /\ calls = <<>>
    /\ requests = <<>>
    /\ side_calls = 0
    /\ runs = 0

DirectFetch ==
    /\ pc = "direct"
    /\ \E args \in FetchInputs, answers \in AllAnswers :
         LET f == fetch_github_file(file_cache, args.owner, args.repo, args.file_path,
                                    answers)
         IN  /\ file_cache' = f.file_cache
             /\ result' = f.result
             /\ requests' = f.requests
             /\ calls' = Entered("fetch_github_file", args)
    /\ exception' = ""
    /\ UNCHANGED <<pc, messages, iteration, response, tool_call, returned,
                   round_trips, dispatched, side_calls, runs>>

DirectAnalyze ==
    /\ pc = "direct"
    /\ \E args \in AnalyzeInputs :
         /\ result' = analyze_code_quality(file_cache, args.file_path)
         /\ calls' = Entered("analyze_code_quality", args)
    /\ exception' = ""
    /\ UNCHANGED <<file_cache, pc, messages, iteration, response, tool_call, returned,
                   round_trips, dispatched, requests, side_calls, runs>>

DirectDispatch ==
    /\ pc = "direct"
    /\ \E tool_name \in ToolNames \cup {"run_linter"},
          tool_input \in FetchInputs \cup AnalyzeInputs :
       \E answers \in (IF tool_name = "fetch_github_file" THEN AllAnswers
                       ELSE {NoAnswers}) :
         LET o == process_tool_call(file_cache, tool_name, tool_input, answers)
         IN  /\ exception' = o.exception
             /\ file_cache' = o.file_cache
             /\ calls' = o.calls
             /\ result' = IF o.exception = "" THEN o.result ELSE result
             /\ requests' = IF o.calls # <<>> /\ tool_name = "fetch_github_file"
                            THEN o.requests ELSE requests
    /\ UNCHANGED <<pc, messages, iteration, response, tool_call, returned,
                   round_trips, dispatched, side_calls, runs>>

ToolNext == DirectFetch \/ DirectAnalyze \/ DirectDispatch

ToolSpec == ToolInit /\ [][ToolNext]_vars

-----------------------------------------------------------------------------
(* analyze_code_quality over many texts: a file of up to MaxLines lines is  *)
(* fetched from main, then analyzed.                                       *)

LineKinds ==
    {"", " \t", "// let it be", "  # def ", " * x", "/* c */",
     "const f = function () {", "let letter = undefined;\r", "def g(): x"}

RECURSIVE Join(_)
Join(lines) ==
    IF Len(lines) = 1 THEN lines[1]
    ELSE lines[1] \o "\n" \o Join(Tail(lines))

TenLineText ==
    Join(<<"// header", "", "function f() {", "  let a = 1;", "",
           "  // add", "  return a;", "}", "", "f();">>)

OneLineText == "function foo(){} const x = 1; let y = 2;"

SourceTexts ==
    {Join(ls) : ls \in UNION {[1..n -> LineKinds] : n \in 1..MaxLines}}
        \cup {TenLineText, OneLineText, ""}

Served(text) ==
    [b \in Branches |->
        IF b = "main" THEN [status_code |-> 200, text |-> text]
        ELSE [status_code |-> 404, text |-> "404: Not Found"]]

MetricsInit ==
    /\ file_cache = EmptyCache
    /\ pc = "metrics"
    /\ messages = <<>>
    /\ iteration = 0
    /\ response = NoResponse
    /\ tool_call = NoToolCall
    /\ result = None
    /\ returned = <<>>
    /\ exception = ""
    /\ round_trips = 0
    /\ dispatched = 0
    /\ calls = <<>>
    /\ requests = <<>>
    /\ side_calls = 0
    /\ runs = 0

FetchText ==
    /\ pc = "metrics"
    /\ \E text \in SourceTexts :
         LET args == [owner |-> "jquery", repo |-> "jquery", file_path |-> "src/core.js"]
             f == fetch_github_file(file_cache, args.owner, args.repo, args.file_path,
                                    Served(text))
         IN  /\ file_cache' = f.file_cache
             /\ result' = f.result
             /\ requests' = f.requests
             /\ calls' = Entered("fetch_github_file", args)
    /\ UNCHANGED <<pc, messages, iteration, response, tool_call, returned, exception,
                   round_trips, dispatched, side_calls, runs>>

AnalyzeText ==
    /\ pc = "metrics"
    /\ \E args \in AnalyzeInputs :
         /\ result' = analyze_code_quality(file_cache, args.file_path)
         /\ calls' = Entered("analyze_code_quality", args)
    /\ UNCHANGED <<file_cache, pc, messages, iteration, response, tool_call, returned,
                   exception, round_trips, dispatched, requests, side_calls, runs>>

MetricsNext == FetchText \/ AnalyzeText

MetricsSpec == MetricsInit /\ [][MetricsNext]_vars

-----------------------------------------------------------------------------
(* Two run_agent invocations in progress at once in one process (two       *)
(* threads).  Every local of run_agent exists once per invocation, so each *)
(* variable other than file_cache holds a function from the invocation to  *)
(* the value; file_cache is the one module-level dict.  A step is one      *)
(* invocation's round-trip, dispatch, pair of appends or return; a tool     *)
(* reads or writes the dict once, after its requests.                      *)

Invocations == {1, 2}

\* The repository each invocation is asked about; both name the same path.
RaceTargets ==
    <<[owner |-> "jquery", repo |-> "jquery"], [owner |-> "lodash", repo |-> "lodash"]>>

RaceRequest(t) ==
    "Analyze the code quality of 'src/core.js' from the '" \o RaceTargets[t].owner
        \o "/" \o RaceTargets[t].repo \o "' repository."

LodashText == "function a() {}\nfunction b() {}\n// end\nconst c = 1;"

\* jquery serves the file on main, lodash on master only.
RemoteAnswers(owner) ==
    [b \in Branches |->
        IF owner = "jquery" /\ b = "main" THEN [status_code |-> 200, text |-> MainText]
        ELSE IF owner = "lodash" /\ b = "master"
             THEN [status_code |-> 200, text |-> LodashText]
        ELSE [status_code |-> 404, text |-> "404: Not Found"]]

RaceFetchArguments(t) ==
    "{\"owner\": \"" \o RaceTargets[t].owner \o "\", \"repo\": \""
        \o RaceTargets[t].repo \o "\", \"file_path\": \"src/core.js\"}"

\* The chat model asks each invocation for a fetch of its own repository or
\* for an analysis, MaxRaceTools times at most, then answers.
RaceResponses(t) ==
    {Reply(FinalAnswer, <<>>),
     Reply("", <<ToolCall("call_a", "fetch_github_file", RaceFetchArguments(t))>>),
     Reply("", <<AnalyzeCall("call_a")>>)}

RaceInit ==
    /\ file_cache = EmptyCache
    /\ pc = [t \in Invocations |-> "awaiting_model"]
    /\ messages = [t \in Invocations |-> SeedMessages(RaceRequest(t))]
    /\ iteration = [t \in Invocations |-> 0]
    /\ response = [t \in Invocations |-> NoResponse]
    /\ tool_call = [t \in Invocations |-> NoToolCall]
    /\ result = [t \in Invocations |-> None]
    /\ returned = [t \in Invocations |-> <<>>]
    /\ exception = [t \in Invocations |-> ""]
    /\ round_trips = [t \in Invocations |-> 0]
    /\ dispatched = [t \in Invocations |-> 0]
    /\ calls = [t \in Invocations |-> <<>>]
    /\ requests = [t \in Invocations |-> <<>>]
    /\ side_calls = [t \in Invocations |-> 0]
    /\ runs = 2

\* Lines 97-113 in invocation t.
RaceModelCall(t) ==
    /\ pc[t] = "awaiting_model"
    /\ LoopGuard(iteration[t])
    /\ iteration' = [iteration EXCEPT ![t] = @ + 1]
    /\ round_trips' = [round_trips EXCEPT ![t] = @ + 1]
    /\ \E r \in RaceResponses(t) :
         /\ r.tool_calls # <<>> => dispatched[t] < MaxRaceTools
         /\ response' = [response EXCEPT ![t] = r]
    /\ calls' = [calls EXCEPT ![t] = <<>>]
    /\ pc' = [pc EXCEPT ![t] = "responded"]
    /\ UNCHANGED <<file_cache, messages, tool_call, result, returned, exception,
                   dispatched, requests, side_calls, runs>>

\* Faulty variant: what a fetch stores stays with the invocation that made it
\* and never reaches the dict the other invocation reads.
RaceDispatchIsolated(t) ==
    /\ pc[t] = "responded"
    /\ response[t].tool_calls # <<>>
    /\ LET tc        == Honored(response[t].tool_calls)
           tool_name == tc.function.name
           tool_args == json_loads(tc.function.arguments)
           answers   == IF tool_name = "fetch_github_file"
                        THEN RemoteAnswers(tool_args.owner) ELSE NoAnswers
           o         == process_tool_call(file_cache, tool_name, tool_args, answers)
       IN  /\ tool_args # JSONDecodeError
           /\ o.exception = ""
           /\ tool_call' = [tool_call EXCEPT ![t] = tc]
           /\ file_cache' = file_cache
           /\ result' = [result EXCEPT ![t] = o.result]
           /\ calls' = [calls EXCEPT ![t] = o.calls]
           /\ requests' = [requests EXCEPT ![t] = o.requests]
    /\ dispatched' = [dispatched EXCEPT ![t] = @ + 1]
    /\ pc' = [pc EXCEPT ![t] = "tool_done"]
    /\ UNCHANGED <<messages, iteration, response, returned, exception, round_trips,
                   side_calls, runs>>

\* Lines 116-126 in invocation t.
RaceDispatch(t) ==
    /\ pc[t] = "responded"
    /\ response[t].tool_calls # <<>>
    /\ LET tc        == Honored(response[t].tool_calls)
           tool_name == tc.function.name
           tool_args == json_loads(tc.function.arguments)
           answers   == IF tool_name = "fetch_github_file"
                        THEN RemoteAnswers(tool_args.owner) ELSE NoAnswers
           o         == process_tool_call(file_cache, tool_name, tool_args, answers)
       IN  /\ tool_args # JSONDecodeError
           /\ o.exception = ""
           /\ tool_call' = [tool_call EXCEPT ![t] = tc]
           /\ file_cache' = o.file_cache
           /\ result' = [result EXCEPT ![t] = o.result]
           /\ calls' = [calls EXCEPT ![t] = o.calls]
           /\ requests' = [requests EXCEPT ![t] = o.requests]
    /\ dispatched' = [dispatched EXCEPT ![t] = @ + 1]
    /\ pc' = [pc EXCEPT ![t] = "tool_done"]
    /\ UNCHANGED <<messages, iteration, response, returned, exception, round_trips,
                   side_calls, runs>>

\* Lines 130-151 in invocation t.
RaceAppend(t) ==
    /\ pc[t] = "tool_done"
    /\ messages' = [messages EXCEPT ![t] = @ \o Appended(tool_call[t], result[t])]
    /\ pc' = [pc EXCEPT ![t] = "awaiting_model"]
    /\ UNCHANGED <<file_cache, iteration, response, tool_call, result, returned,
                   exception, round_trips, dispatched, calls, requests, side_calls, runs>>

\* Lines 153-158 in invocation t.
RaceFinish(t) ==
    /\ pc[t] = "responded"
    /\ response[t].tool_calls = <<>>
    /\ returned' = [returned EXCEPT ![t] = <<response[t].content>>]
    /\ pc' = [pc EXCEPT ![t] = "done"]
    /\ UNCHANGED <<file_cache, messages, iteration, response, tool_call, result,
                   exception, round_trips, dispatched, calls, requests, side_calls, runs>>

RaceNext ==
    \E t \in Invocations :
        \/ RaceModelCall(t)
        \/ RaceDispatch(t)
        \/ RaceAppend(t)
        \/ RaceFinish(t)

RaceSpec == RaceInit /\ [][RaceNext]_vars

-----------------------------------------------------------------------------
(* Properties *)

InRun == pc \in {"awaiting_model", "responded", "tool_done"}
Terminated == pc \in {"done", "iteration_exhausted", "raised"}

IsFetchOf(p) ==
    calls # <<>> /\ calls[1].name = "fetch_github_file" /\ calls[1].args.file_path = p

Succeeded == "success" \in DOMAIN result /\ result.success

\* C1: in every model round-trip at most one tool invocation is executed: a
\* response that requests n >= 1 invocations has exactly its first one
\* dispatched (so the dispatches of a run number its round-trips that asked
\* for a tool), and a response that requests none has no tool executed.
C1_OneToolPerRoundTrip ==
    /\ Len(calls) <= 1
    /\ pc = "responded" => (calls = <<>> /\ dispatched = round_trips - 1)
    /\ pc = "tool_done" =>
          /\ response.tool_calls # <<>>
          /\ tool_call = response.tool_calls[1]
          /\ dispatched = round_trips
          /\ calls = IF response.tool_calls[1].function.name \in ToolNames
                     THEN Entered(response.tool_calls[1].function.name,
                                  json_loads(response.tool_calls[1].function.arguments))
                     ELSE <<>>
    /\ pc = "awaiting_model" => dispatched = round_trips
    /\ pc = "done" =>
          (calls = <<>> /\ response.tool_calls = <<>> /\ dispatched = round_trips - 1)

C1_Witness ==
    /\ pc = "tool_done"
    /\ Len(response.tool_calls) = 3
    /\ calls = Entered("analyze_code_quality", [file_path |-> "src/core.js"])

\* What is left of a run: three steps for every round-trip still allowed,
\* less the steps already taken in the current one.
Rank ==
    3 * (max_iterations - iteration)
        + (IF pc = "responded" THEN 2 ELSE IF pc = "tool_done" THEN 1 ELSE 0)

\* C2: run_agent terminates and never makes more than max_iterations = 10
\* model round-trips.  Every step of a run either ends it (a return or an
\* exception) or lowers Rank, which is never negative, so a run ends within
\* 3 * 10 + 1 steps whatever the chat model answers.
C2_BoundedTermination ==
    /\ [](round_trips <= max_iterations /\ round_trips = iteration)
    /\ [](InRun => Rank >= 0)
    /\ [][InRun => (Terminated' \/ (InRun' /\ Rank' < Rank))]_vars

C2_Witness == pc = "iteration_exhausted" /\ round_trips = max_iterations

\* C3: analyze_code_quality(p) for a p that is no cache key returns the
\* "File not fetched yet" error without raising and without any metric, and
\* metrics are produced only for a p that is a cache key when it is called.
C3_AnalyzeUnfetchedIsError ==
    [][\A p \in Paths :
         calls' = Entered("analyze_code_quality", [file_path |-> p]) =>
            /\ exception' = ""
            /\ p \notin DOMAIN file_cache =>
                  result' = [error |-> "File not fetched yet. Call fetch_github_file first."]
            /\ DOMAIN result' \cap {"total_lines", "code_lines", "estimated_functions"} # {}
                  => p \in DOMAIN file_cache]_vars

C3_Witness ==
    /\ calls = Entered("analyze_code_quality", [file_path |-> "README.md"])
    /\ result = NotFetched
    /\ DOMAIN file_cache = {"src/core.js"}

\* C4: after a fetch that reports success, the cache entry of the path is the
\* body of the branch that answered 200 (main when main answered 200,
\* otherwise master) and the reported size is the length of that body.
C4_SuccessfulFetchCachesBody ==
    \A p \in Paths :
        (IsFetchOf(p) /\ Succeeded) =>
            LET served == IF requests[1].status_code = 200 THEN requests[1]
                          ELSE requests[Len(requests)]
                a == calls[1].args
            IN  /\ requests[1].url = "https://raw.githubusercontent.com/" \o a.owner
                                       \o "/" \o a.repo \o "/main/" \o p
                /\ served.url \in
                     {"https://raw.githubusercontent.com/" \o a.owner \o "/" \o a.repo
                        \o "/" \o b \o "/" \o p : b \in Branches}
                /\ served.status_code = 200
                /\ p \in DOMAIN file_cache
                /\ file_cache[p] = served.text
                /\ result.file_path = p
                /\ result.size = Len(served.text)

C4_Witness ==
    /\ IsFetchOf("README.md")
    /\ Succeeded
    /\ Len(requests) = 2
    /\ requests[1].text # requests[2].text
    /\ file_cache["README.md"] = MasterText

BothNon200(reqs) ==
    Len(reqs) = 2 /\ reqs[1].status_code # 200 /\ reqs[2].status_code # 200

\* C5 as claimed: after a fetch of a path for which both branches answered
\* non-200, the result is the "File not found" failure and the cache has no
\* entry for that path, whatever the cache held before.
C5_Original ==
    \A p \in Paths :
        (IsFetchOf(p) /\ BothNon200(requests)) =>
            (result = [success |-> FALSE, error |-> "File not found"]
             /\ p \notin DOMAIN file_cache)

\* C5 as amended: a fetch of a path for which both branches answer non-200
\* returns the "File not found" failure and leaves the cache as it was: it
\* creates no entry for the path, and an entry an earlier fetch stored stays.
C5_FailedFetchLeavesCache ==
    [][\A p \in Paths :
         (calls' # <<>> /\ calls'[1].name = "fetch_github_file"
            /\ calls'[1].args.file_path = p /\ BothNon200(requests')) =>
               /\ result' = [success |-> FALSE, error |-> "File not found"]
               /\ exception' = ""
               /\ file_cache' = file_cache]_vars

C5_Witness ==
    /\ IsFetchOf("src/core.js")
    /\ BothNon200(requests)
    /\ result = FetchFailure
    /\ "src/core.js" \in DOMAIN file_cache

C7_TwoMessagesPerDispatch ==
    /\ [](pc = "tool_done" => Len(messages) = 2 * dispatched)
    /\ [](pc = "awaiting_model" => Len(messages) = 2 + 2 * dispatched)
    /\ [][(messages' # messages /\ runs' = runs) =>
            /\ pc = "tool_done"
            /\ dispatched' = dispatched
            /\ result' = result
            /\ result = None => messages'[Len(messages')].content = "null"
            /\ messages' = messages \o
                 <<[role |-> "assistant", content |-> "",
                    tool_calls |->
                      <<[id |-> response.tool_calls[1].id, type |-> "function",
                         function |->
                           [name |-> response.tool_calls[1].function.name,
                            arguments |-> response.tool_calls[1].function.arguments]]>>],
                   [role |-> "tool", tool_call_id |-> response.tool_calls[1].id,
                    content |-> json_dumps(result)]>>]_vars

C7_Witness ==
    /\ pc = "awaiting_model"
    /\ Len(response.tool_calls) = 2
    /\ Len(messages) = 6
    /\ messages[5].tool_calls[1].function.arguments = FetchArguments
    /\ messages[6].tool_call_id = "call_a"

C9_FinalAnswerEndsRun ==
    /\ [](pc = "done" =>
            /\ returned = <<response.content>>
            /\ response.tool_calls = <<>>
            /\ calls = <<>>
            /\ round_trips \in 1..10
            /\ dispatched = round_trips - 1
            /\ Len(messages) = 2 * round_trips)
    /\ [][(pc = "responded" /\ response.tool_calls = <<>>) =>
            /\ pc' = "done"
            /\ messages' = messages
            /\ round_trips' = round_trips
            /\ dispatched' = dispatched
            /\ file_cache' = file_cache]_vars
    /\ [][pc = "done" => (pc' = "awaiting_model" /\ runs' = runs + 1)]_vars

C9_Witness ==
    /\ pc = "done"
    /\ round_trips = 10
    /\ dispatched = 9
    /\ returned = <<FinalAnswer>>

\* C10: a fetch requests main first, requests master only when main answered
\* non-200, makes at most two requests, and reports failure only after both
\* branches answered non-200.
C10_MainThenMaster ==
    (calls # <<>> /\ calls[1].name = "fetch_github_file") =>
        LET a == calls[1].args
            base == "https://raw.githubusercontent.com/" \o a.owner \o "/" \o a.repo
        IN  /\ Len(requests) \in {1, 2}
            /\ requests[1].url = base \o "/main/" \o a.file_path
            /\ Len(requests) = 2 <=> requests[1].status_code # 200
            /\ Len(requests) = 2 => requests[2].url = base \o "/master/" \o a.file_path
            /\ result = [success |-> FALSE, error |-> "File not found"]
                  <=> BothNon200(requests)

C10_Witness ==
    /\ IsFetchOf("src/core.js")
    /\ Len(requests) = 1
    /\ requests[1].text = MasterText
    /\ calls[1].args.owner = "lodash"

\* The honored invocation of the response at hand has an argument string that
\* json.loads rejects.
Unparsable ==
    IF pc = "responded" /\ response.tool_calls # <<>>
    THEN json_loads(response.tool_calls[1].function.arguments) = JSONDecodeError
    ELSE FALSE

\* C11: a failure in round-trip k (the model call, the parsing of the honored
\* argument string, or the dispatched tool call) leaves run_agent as an
\* exception: nothing is returned, the transcript still ends with the pair of
\* round-trip k - 1, only k - 1 dispatches returned, a parse failure entered
\* no tool, and the run takes no further step (no model call, no tool call,
\* no retry); the process can only go on with a new run.
C11_FailurePropagates ==
    /\ [](pc = "raised" =>
            /\ exception \in {"APIError", "JSONDecodeError", "TypeError",
                               "ConnectionError"}
            /\ returned = <<>>
            /\ round_trips \in 1..10
            /\ dispatched = round_trips - 1
            /\ Len(messages) = 2 * round_trips
            /\ exception \in {"APIError", "JSONDecodeError", "TypeError"} => calls = <<>>)
    /\ [](pc # "raised" /\ InRun => exception = "")
    /\ [][(InRun /\ (Unparsable \/ exception' # "")) =>
             /\ pc' = "raised"
             /\ exception' # ""
             /\ messages' = messages
             /\ file_cache' = file_cache
             /\ round_trips' \in {round_trips, round_trips + 1}
             /\ round_trips' = round_trips + 1 <=> pc = "awaiting_model"
             /\ dispatched' = dispatched
             /\ returned' = <<>>]_vars
    /\ [][pc = "raised" => (runs' = runs + 1 /\ pc' = "awaiting_model"
                              /\ round_trips' = 0 /\ exception' = "")]_vars

C11_Witness ==
    /\ pc = "raised"
    /\ exception = "JSONDecodeError"
    /\ round_trips = 3
    /\ Len(messages) = 6
    /\ messages[4].content # "null"

\* C12: over any sequence of fetches and analyses the keys of the cache are
\* paths and are never lost; a fetch of p that reports success, whatever its
\* owner and repository, makes the entry of p the body it was served; every
\* other operation (an analysis, a failed fetch of p, a fetch of another path)
\* leaves the entry of p as it was.  So the entry of p is always the body of
\* the latest successful fetch of p.
C12_CacheKeepsLastFetch ==
    /\ [](DOMAIN file_cache \subseteq Paths)
    /\ [][/\ DOMAIN file_cache \subseteq DOMAIN file_cache'
          /\ \A p \in Paths :
                IF /\ calls' # <<>>
                   /\ calls'[1].name = "fetch_github_file"
                   /\ calls'[1].args.file_path = p
                   /\ "success" \in DOMAIN result'
                   /\ result'.success
                THEN /\ p \in DOMAIN file_cache'
                     /\ requests'[Len(requests')].status_code = 200
                     /\ file_cache'[p] = requests'[Len(requests')].text
                ELSE /\ p \in DOMAIN file_cache' <=> p \in DOMAIN file_cache
                     /\ p \in DOMAIN file_cache => file_cache'[p] = file_cache[p]]_vars

C12_Witness ==
    /\ IsFetchOf("src/core.js")
    /\ calls[1].args.owner = "lodash"
    /\ calls[1].args.repo = "jquery"
    /\ BothNon200(requests)
    /\ DOMAIN file_cache = Paths
    /\ file_cache["src/core.js"] = MasterText
    /\ file_cache["README.md"] = MainText

\* The lines of a text, by position: a line starts at 1 and after every
\* newline, and runs up to the next newline or the end of the text.
NewlinesOf(text) == {i \in 1..Len(text) : CharAt(text, i) = "\n"}

LineStarts(text) == {1} \cup {i + 1 : i \in NewlinesOf(text)}

LineEnd(text, s) ==
    LET later == {i \in NewlinesOf(text) : i >= s}
    IN  IF later = {} THEN Len(text)
        ELSE (CHOOSE i \in later : \A j \in later : i <= j) - 1

\* The positions of the line at s that hold something other than whitespace.
Visible(text, s) == {i \in s..LineEnd(text, s) : CharAt(text, i) \notin Whitespace}

\* The line at s is not blank and its first visible characters are none of
\* the markers //, #, /*, *.
CountsAsCode(text, s) ==
    /\ Visible(text, s) # {}
    /\ LET k == CHOOSE i \in Visible(text, s) : \A j \in Visible(text, s) : i <= j
       IN  /\ CharAt(text, k) \notin {"#", "*"}
           /\ IF k < Len(text) THEN SubSeq(text, k, k + 1) \notin {"//", "/*"} ELSE TRUE

Analyzed(p) ==
    /\ calls = Entered("analyze_code_quality", [file_path |-> p])
    /\ p \in DOMAIN file_cache

\* C13: for every cached text, the analysis reports as total_lines the number
\* of newline-separated lines (blank ones included) and as code_lines the
\* number of those lines that are neither blank after trimming nor start with
\* //, #, /* or *; code_lines never exceeds total_lines, and the file of 10
\* lines with 3 blank and 2 // lines gives 10 and 5.
C13_LineMetrics ==
    \A p \in Paths :
        Analyzed(p) =>
            LET text == file_cache[p]
            IN  /\ result.file_path = p
                /\ result.total_lines = Cardinality(LineStarts(text))
                /\ result.code_lines =
                      Cardinality({s \in LineStarts(text) : CountsAsCode(text, s)})
                /\ result.code_lines <= result.total_lines
                /\ text = TenLineText =>
                      (result.total_lines = 10 /\ result.code_lines = 5)

C13_Witness ==
    /\ Analyzed("src/core.js")
    /\ file_cache["src/core.js"] = TenLineText
    /\ result.total_lines = 10
    /\ result.code_lines = 5

\* The positions at which a token occurs.  None of the four tokens can
\* overlap itself, so these are its non-overlapping occurrences.
Occurrences(text, token) ==
    {i \in 1..Len(text) :
        i + Len(token) - 1 <= Len(text) /\ SubSeq(text, i, i + Len(token) - 1) = token}

\* C14: for every cached text, estimated_functions is the number of
\* occurrences of "function " plus those of "def ", "const " and "let " in the
\* whole text; `function foo(){} const x = 1; let y = 2;` gives 3.
C14_EstimatedFunctions ==
    \A p \in Paths :
        Analyzed(p) =>
            LET text == file_cache[p]
            IN  /\ result.estimated_functions =
                      Cardinality(Occurrences(text, "function "))
                        + Cardinality(Occurrences(text, "def "))
                        + Cardinality(Occurrences(text, "const "))
                        + Cardinality(Occurrences(text, "let "))
                /\ text = "function foo(){} const x = 1; let y = 2;" =>
                      result.estimated_functions = 3

C14_Witness ==
    /\ Analyzed("src/core.js")
    /\ file_cache["src/core.js"] = OneLineText
    /\ result.estimated_functions = 3

\* The honored invocation of the response at hand names neither tool.
HonorsUnknown ==
    IF response.tool_calls = <<>> THEN FALSE
    ELSE response.tool_calls[1].function.name
            \notin {"fetch_github_file", "analyze_code_quality"}

\* C15: when the honored invocation names neither tool, process_tool_call
\* returns None without entering a tool and without touching the cache;
\* run_agent does not abort: it appends the assistant message and a tool
\* message whose content is "null", and goes on to the next model round-trip,
\* the round-trip of the unrecognized name counting against the cap of 10.
C15_UnknownToolYieldsNull ==
    /\ [][(pc = "responded" /\ HonorsUnknown /\ ~Unparsable) =>
            /\ pc' = "tool_done"
            /\ exception' = ""
            /\ result' = [py_none |-> TRUE]
            /\ calls' = <<>>
            /\ file_cache' = file_cache
            /\ requests' = requests
            /\ dispatched' = dispatched + 1
            /\ iteration' = iteration]_vars
    /\ [][(pc = "tool_done" /\ HonorsUnknown) =>
            /\ pc' = "awaiting_model"
            /\ Len(messages') = Len(messages) + 2
            /\ SubSeq(messages', 1, Len(messages)) = messages
            /\ messages'[Len(messages) + 1].role = "assistant"
            /\ messages'[Len(messages) + 1].tool_calls[1].id = response.tool_calls[1].id
            /\ messages'[Len(messages) + 1].tool_calls[1].function
                  = response.tool_calls[1].function
            /\ messages'[Len(messages) + 2]
                  = [role |-> "tool", tool_call_id |-> response.tool_calls[1].id,
                     content |-> "null"]
            /\ iteration' = iteration
            /\ round_trips' = round_trips]_vars
    /\ [][(pc = "awaiting_model" /\ HonorsUnknown) =>
            IF iteration < 10
            THEN iteration' = iteration + 1 /\ round_trips' = round_trips + 1
                   /\ pc' \in {"responded", "raised"}
            ELSE pc' = "iteration_exhausted"]_vars
    /\ []((pc \in {"tool_done", "awaiting_model"} /\ HonorsUnknown) =>
            (iteration = dispatched /\ round_trips = dispatched))

C15_Witness ==
    /\ pc = "responded"
    /\ round_trips = 2
    /\ dispatched = 1
    /\ messages[3].tool_calls[1].function.name = "run_linter"
    /\ messages[4].content = "null"

\* The invocations of this run that were executed and recorded: a dispatch
\* that has returned is recorded by the two appends that follow it in the
\* same pass of the loop.
Recorded == IF pc = "tool_done" THEN dispatched - 1 ELSE dispatched

C17_CacheOutlivesRun ==
    /\ [][runs' # runs =>
            /\ runs' = runs + 1
            /\ file_cache' = file_cache
            /\ Len(messages') = 2
            /\ messages'[1].role = "user"
            /\ messages'[1].content \in UserMessages
            /\ messages'[2].role = "system"
            /\ dispatched' = 0
            /\ round_trips' = 0]_vars
    /\ [][side_calls' = 0 => file_cache' = file_cache]_vars
    /\ [][\A p \in DOMAIN file_cache :
            (pc = "responded"
               /\ calls' = Entered("analyze_code_quality", [file_path |-> p])) =>
                  /\ pc' = "tool_done"
                  /\ DOMAIN result' = {"file_path", "total_lines", "code_lines",
                                        "estimated_functions", "note"}
                  /\ result'.file_path = p
                  /\ result'.total_lines = Cardinality(LineStarts(file_cache[p]))
                  /\ result'.estimated_functions =
                        Cardinality(Occurrences(file_cache[p], "function "))
                          + Cardinality(Occurrences(file_cache[p], "def "))
                          + Cardinality(Occurrences(file_cache[p], "const "))
                          + Cardinality(Occurrences(file_cache[p], "let "))]_vars

C17_Witness ==
    /\ runs = 2
    /\ side_calls = 0
    /\ pc = "tool_done"
    /\ round_trips = 1
    /\ Len(messages) = 2
    /\ calls = Entered("analyze_code_quality", [file_path |-> "src/core.js"])
    /\ "total_lines" \in DOMAIN result
    /\ result.total_lines = 3
    /\ file_cache["src/core.js"] = MasterText

\* C18: two interleaved run_agent invocations share the one cache with no
\* isolation.  Whichever invocation dispatches, a successful fetch of p puts
\* the body it was served under p in the dict both read, replacing what the
\* other stored there, and an analysis of p returns the metrics of whatever
\* the dict holds under p at that moment.  (The witness is an interleaving in
\* which an invocation that fetched p from its own repository gets the
\* metrics of the text the other one fetched from another repository.)
C18_InterleavedRunsShareCache ==
    [][\A t \in Invocations :
         (pc[t] = "responded" /\ pc'[t] = "tool_done") =>
            LET name == response[t].tool_calls[1].function.name
                p    == "src/core.js"
            IN  /\ name = "fetch_github_file" =>
                      /\ result'[t].success
                      /\ requests'[t][Len(requests'[t])].status_code = 200
                      /\ file_cache' = [k \in {p} |-> requests'[t][Len(requests'[t])].text]
                /\ name = "analyze_code_quality" =>
                      /\ file_cache' = file_cache
                      /\ IF p \in DOMAIN file_cache
                         THEN /\ "total_lines" \in DOMAIN result'[t]
                              /\ result'[t].total_lines
                                    = Cardinality(LineStarts(file_cache[p]))
                              /\ result'[t].estimated_functions
                                    = Cardinality(Occurrences(file_cache[p], "function "))
                                      + Cardinality(Occurrences(file_cache[p], "def "))
                                      + Cardinality(Occurrences(file_cache[p], "const "))
                                      + Cardinality(Occurrences(file_cache[p], "let "))
                         ELSE DOMAIN result'[t] = {"error"}]_vars

C18_Witness ==
    /\ runs = 2
    /\ pc[1] = "tool_done"
    /\ Len(messages[1]) = 4
    /\ messages[1][3].tool_calls[1].function.arguments = RaceFetchArguments(1)
    /\ messages[1][4].content
          = "{\"success\": true, \"file_path\": \"src/core.js\", \"size\": 17}"
    /\ calls[1] = Entered("analyze_code_quality", [file_path |-> "src/core.js"])
    /\ result[1].total_lines = 4
    /\ result[1].estimated_functions = 3
    /\ calls[2] = Entered("fetch_github_file",
                          [owner |-> "lodash", repo |-> "lodash",
                           file_path |-> "src/core.js"])
    /\ file_cache["src/core.js"] = LodashText

====
